---------------------------- MODULE Spec2Model ----------------------------
(***************************************************************************)
(* A model of render-python's tile and transform data model:               *)
(*   src/renderapi/tilespec.py                  (TileSpec, Transform,      *)
(*       ReferenceTransform, AffineModel, ResolvedTileSpecMap,             *)
(*       ResolvedTileSpecCollection)                                       *)
(*   src/renderapi/transforms/ThinPlateSpline.py (ThinPlateSplineTransform)*)
(*                                                                         *)
(* Conventions.                                                            *)
(*  - A Python dict is a TLA+ function whose DOMAIN is its key set; d[k]   *)
(*    raises KeyError exactly when k is not in DOMAIN d.                   *)
(*  - A Python string that the code splits on blanks (a dataString) is the *)
(*    sequence of its blank-separated tokens; every other string, and      *)
(*    every scalar the code only copies, is a TLA+ string.                 *)
(*  - Python's None is the string None in a scalar slot and the record     *)
(*    NoneObj in an object slot.                                           *)
(*  - A float is an integer: only integer-valued floats occur.             *)
(*  - A method that raises is an operator that returns the object as the   *)
(*    raise leaves it, together with the exception's name.                 *)
(***************************************************************************)
EXTENDS Integers, Sequences, FiniteSets, TLC

VARIABLES
    ts,       \* a TileSpec instance
    tf,       \* a stand-alone Transform instance
    heap,     \* the Python list objects the resolved collections refer to
    rmap,     \* the ResolvedTileSpecMap instances
    rcol,     \* the ResolvedTileSpecCollection instances
    tps,      \* a ThinPlateSplineTransform instance
    am,       \* an AffineModel instance
    lastOp,   \* the operation called last
    arg,      \* its argument
    ret,      \* its return value
    exc,      \* the exception it raised, or None
    src       \* what the instance was last parsed from with success, or NoneObj

vars == <<ts, tf, heap, rmap, rcol, tps, am, lastOp, arg, ret, exc, src>>

-----------------------------------------------------------------------------
(* Bounds *)

MaxChain == 2     \* longest transforms.specList handed to TileSpec.from_dict
MaxPts == 2       \* most points in a batch handed to AffineModel.tform
MaxDims == 2      \* largest ndims in a ThinPlateSpline dataString
MaxLm == 2        \* largest nLm in a ThinPlateSpline dataString
MaxList == 2      \* longest tilespecs list ResolvedTileSpecMap.from_dict may grow

-----------------------------------------------------------------------------
(* Python values *)

None == "None"
NoneObj == [kind |-> "NoneType"]
Unset == "<no attribute>"

Range(s) == {s[i] : i \in DOMAIN s}

Get(d, k, default) == IF k \in DOMAIN d THEN d[k] ELSE default

Drop(d, k) == [x \in DOMAIN d \ {k} |-> d[x]]

EmptyDict == <<>>

Raised(o, e) == [obj |-> o, exc |-> e]

Returned(o) == [obj |-> o, exc |-> None]

\* float(token): the tokens Python's float() accepts, with their values.
FloatTable ==
    { <<"0.0", 0>>, <<"1.0", 1>>, <<"-1.0", -1>>, <<"2.0", 2>>,
      <<"5.0", 5>>, <<"-3.0", -3>>,
      <<"0.000000", 0>>, <<"1.000000", 1>>, <<"-1.000000", -1>>,
      <<"2.000000", 2>>, <<"5.000000", 5>>, <<"-3.000000", -3>> }

IsFloatToken(tok) == \E p \in FloatTable : p[1] = tok

float(tok) == (CHOOSE p \in FloatTable : p[1] = tok)[2]

\* "%f" % v
FormatF(v) ==
    CASE v = 0 -> "0.000000"
      [] v = 1 -> "1.000000"
      [] v = -1 -> "-1.000000"
      [] v = 2 -> "2.000000"
      [] v = 5 -> "5.000000"
      [] v = -3 -> "-3.000000"
      [] OTHER -> "<%f>"

-----------------------------------------------------------------------------
(* class ReferenceTransform *)

ReferenceTransform(refId) == [kind |-> "ReferenceTransform", refId |-> refId]

ReferenceTransform_to_dict(self) == [type |-> "ref", refId |-> self.refId]

-----------------------------------------------------------------------------
(* class Transform *)

Transform(className, dataString, transformId) ==
    [kind |-> "Transform", className |-> className,
     dataString |-> dataString, transformId |-> transformId]

\* An instance before __init__ has set anything (Transform(json=...)).
TransformBlank ==
    [kind |-> "Transform", className |-> Unset,
     dataString |-> Unset, transformId |-> Unset]

Transform_to_dict(self) ==
    LET d == [type |-> "leaf", className |-> self.className,
              dataString |-> self.dataString]
    IN  IF self.transformId # None
        THEN d @@ ("transformId" :> self.transformId)
        ELSE d

Transform_from_dict_swapped(self, d) ==
    IF "dataString" \notin DOMAIN d THEN Raised(self, "KeyError")
    ELSE IF "className" \notin DOMAIN d
         THEN Raised([self EXCEPT !.dataString = d.dataString], "KeyError")
         ELSE Returned([self EXCEPT !.dataString = d.className,
                                    !.className = d.dataString,
                                    !.transformId = Get(d, "transformId", None)])

Transform_from_dict(self, d) ==
    IF "dataString" \notin DOMAIN d THEN Raised(self, "KeyError")
    ELSE IF "className" \notin DOMAIN d
         THEN Raised([self EXCEPT !.dataString = d.dataString], "KeyError")
         ELSE Returned([self EXCEPT !.dataString = d.dataString,
                                    !.className = d.className,
                                    !.transformId = Get(d, "transformId", None)])

-----------------------------------------------------------------------------
(* class AffineModel *)

AffineClassName == "mpicbg.trakem2.transform.AffineModel2D"

Identity4 == [i \in 0..3 |-> [j \in 0..3 |-> IF i = j THEN 1 ELSE 0]]

load_M_transposed(self) ==
    [self EXCEPT !.M = [Identity4 EXCEPT ![0][0] = self.M00,
                                         ![0][1] = self.M10,
                                         ![1][0] = self.M01,
                                         ![1][1] = self.M11,
                                         ![0][3] = self.B0,
                                         ![1][3] = self.B1]]

load_M(self) ==
    [self EXCEPT !.M = [Identity4 EXCEPT ![0][0] = self.M00,
                                         ![0][1] = self.M01,
                                         ![1][0] = self.M10,
                                         ![1][1] = self.M11,
                                         ![0][3] = self.B0,
                                         ![1][3] = self.B1]]

AffineModel(M00, M01, M10, M11, B0, B1) ==
    load_M([kind |-> "AffineModel", className |-> AffineClassName,
            M00 |-> M00, M01 |-> M01, M10 |-> M10, M11 |-> M11,
            B0 |-> B0, B1 |-> B1, M |-> Identity4])

AffineModel_to_dict(self) ==
    [type |-> "leaf", className |-> self.className,
     dataString |-> << FormatF(self.M[0][0]), FormatF(self.M[0][1]),
                       FormatF(self.M[1][0]), FormatF(self.M[1][1]),
                       FormatF(self.M[0][3]), FormatF(self.M[1][3]) >>]

\* The tuple assignment unpacks map(float, ds) before it stores anything, so
\* a wrong token count or a token float() rejects leaves self as it was.
AffineModel_from_dict(self, d) ==
    IF "dataString" \notin DOMAIN d THEN Raised(self, "KeyError")
    ELSE LET ds == d.dataString
         IN  IF Len(ds) # 6 \/ \E i \in 1..Len(ds) : ~IsFloatToken(ds[i])
             THEN Raised(self, "ValueError")
             ELSE Returned(load_M([self EXCEPT !.M00 = float(ds[1]),
                                               !.M01 = float(ds[2]),
                                               !.M10 = float(ds[3]),
                                               !.M11 = float(ds[4]),
                                               !.B0 = float(ds[5]),
                                               !.B1 = float(ds[6])]))

\* The determinant of the n x n matrix A, by expansion along row 0.
Minor(A, n, r, c) ==
    [i \in 0..(n - 2) |->
        [j \in 0..(n - 2) |->
            A[IF i < r THEN i ELSE i + 1][IF j < c THEN j ELSE j + 1]]]

Sign(k) == IF k % 2 = 0 THEN 1 ELSE -1

RECURSIVE Det(_, _)
RECURSIVE DetRow(_, _, _)
DetRow(A, n, c) ==
    IF c = n THEN 0
    ELSE Sign(c) * A[0][c] * Det(Minor(A, n, 0, c), n - 1) + DetRow(A, n, c + 1)

Det(A, n) == IF n = 1 THEN A[0][0] ELSE DetRow(A, n, 0)

\* np.linalg.inv(M) for a 4 x 4 matrix of determinant 1 or -1, where the
\* inverse is integral: the transposed cofactor matrix over the determinant.
linalg_inv(M) ==
    [i \in 0..3 |->
        [j \in 0..3 |->
            (Sign(i + j) * Det(Minor(M, 4, j, i), 3)) \div Det(M, 4)]]

\* invert(): Ai = AffineModel() keeps the default parameters; only Ai.M is
\* replaced. np.linalg.inv raises LinAlgError on a singular matrix.
AffineModel_invert(self) ==
    IF Det(self.M, 4) = 0 THEN Raised(NoneObj, "LinAlgError")
    ELSE Returned([AffineModel(1, 0, 0, 1, 0, 0) EXCEPT !.M = linalg_inv(self.M)])

\* A batch of points is [dim |-> shape[1], rows |-> the Np rows].
\* For shape[1] = 4 neither branch binds Nd and the return raises
\* UnboundLocalError; for any other width the assert fails.
convert_to_point_vector(points) ==
    IF points.dim = 2
    THEN Returned([rows |-> [i \in 1..Len(points.rows) |->
                                points.rows[i] \o <<0, 1>>], Nd |-> 2])
    ELSE IF points.dim = 3
    THEN Returned([rows |-> [i \in 1..Len(points.rows) |->
                                points.rows[i] \o <<1>>], Nd |-> 3])
    ELSE IF points.dim = 4 THEN Raised(NoneObj, "UnboundLocalError")
    ELSE Raised(NoneObj, "AssertionError")

\* np.dot(M, points.T).T
dot(M, rows) ==
    [r \in 1..Len(rows) |->
        [i \in 1..4 |->
            M[i - 1][0] * rows[r][1] + M[i - 1][1] * rows[r][2]
                + M[i - 1][2] * rows[r][3] + M[i - 1][3] * rows[r][4]]]

convert_points_vector_to_array(rows, Nd) ==
    [r \in 1..Len(rows) |-> [i \in 1..Nd |-> rows[r][i] \div rows[r][4]]]

tform(self, points) ==
    LET c == convert_to_point_vector(points)
    IN  IF c.exc # None THEN c
        ELSE Returned([dim |-> c.obj.Nd,
                       rows |-> convert_points_vector_to_array(
                                    dot(self.M, c.obj.rows), c.obj.Nd)])

-----------------------------------------------------------------------------
(* class ThinPlateSplineTransform *)

TPSClassName == "mpicbg.trakem2.transform.ThinPlateSplineTransform"

\* In this class a real number x is the integer nearest to 1000 * x.
Scale == 1000

\* int(token)
int(tok) == CHOOSE n \in 0..9 : ToString(n) = tok

\* utils.decodeBase64: the array a base64 block encodes. A block is
\* [text |-> "null"] or [text |-> "base64", values |-> the encoded array].
decodeBase64(block) == block.values

\* values[from:to], 0-based and clipped as a Python slice is.
Slice(values, from, to) ==
    LET hi == IF to < Len(values) THEN to ELSE Len(values)
    IN  IF from >= hi THEN <<>> ELSE [i \in 1..(hi - from) |-> values[from + i]]

\* array.reshape(rows, cols) raises ValueError unless the sizes agree.
CanReshape(values, rows, cols) == Len(values) = rows * cols

reshape(values, rows, cols) ==
    [i \in 1..rows |-> [j \in 1..cols |-> values[(i - 1) * cols + j]]]

\* The instance ThinPlateSplineTransform(dataString=None) builds: the
\* attributes of _process_dataString do not exist.
ThinPlateSplineTransformBare ==
    [kind |-> "ThinPlateSplineTransform", labels |-> None,
     transformId |-> None, className |-> TPSClassName]

hasattr(self, name) == name \in DOMAIN self

\* fields = dataString.split(" "): header, ndims, nLm, block, block.
process_dataString(self, fields) ==
    LET ndims == int(fields[2])
        nLm == int(fields[3])
        s1 == self @@ [ndims |-> ndims, nLm |-> nLm]
        v1 == decodeBase64(fields[4])
        v2 == decodeBase64(fields[5])
        affineOk == CanReshape(Slice(v1, 0, ndims * ndims), ndims, ndims)
        s2 == IF fields[4].text # "null"
              THEN [aMtx |-> reshape(Slice(v1, 0, ndims * ndims), ndims, ndims),
                    bVec |-> Slice(v1, ndims * ndims, Len(v1))] @@ s1
              ELSE [aMtx |-> NoneObj, bVec |-> NoneObj] @@ s1
        srcOk == CanReshape(Slice(v2, 0, ndims * nLm), ndims, nLm)
        dOk == CanReshape(Slice(v2, ndims * nLm, Len(v2)), ndims, nLm)
    IN  IF fields[4].text # "null" /\ ~affineOk THEN Raised(s1, "RenderError")
        ELSE IF ~srcOk \/ ~dOk THEN Raised(s2, "RenderError")
        ELSE Returned(
                 [srcPts |-> reshape(Slice(v2, 0, ndims * nLm), ndims, nLm),
                  dMtxDat |-> reshape(Slice(v2, ndims * nLm, Len(v2)),
                                      ndims, nLm)] @@ s2)

\* r*r*log(r) for r = sqrt(k), k the squared norm in whole units: k*ln(k)/2,
\* scaled. r > 1e-8 fails only for k = 0.
R2LogRTable ==
    <<0, 693, 1648, 2773, 4024, 5375, 6811, 8318, 9888, 11513, 13188, 14909>>

r2Logr(k) == IF k = 0 THEN 0 ELSE R2LogRTable[k]

\* The squared norm, in whole units, of zeros_like(pt) with its first ndims
\* entries set to srcPts[d][lnd] - pt[d].
DisplacementNormSq(self, lnd, pt) ==
    LET sq(d) == ((self.srcPts[d][lnd] - pt[d]) \div Scale)
                     * ((self.srcPts[d][lnd] - pt[d]) \div Scale)
        RECURSIVE Sum(_)
        Sum(d) == IF d = 0 THEN 0 ELSE sq(d) + Sum(d - 1)
    IN  Sum(self.ndims)

RECURSIVE DeformationSum(_, _, _, _)
DeformationSum(self, pt, d, lnd) ==
    IF lnd = 0 THEN 0
    ELSE (r2Logr(DisplacementNormSq(self, lnd, pt)) * self.dMtxDat[d][lnd])
             \div Scale
         + DeformationSum(self, pt, d, lnd - 1)

\* srcPtDisplacement reads pt[d] for d < ndims: IndexError on a shorter pt,
\* once there is a landmark to visit.
computeDeformationContribution(self, pt) ==
    IF self.nLm > 0 /\ Len(pt) < self.ndims THEN Raised(NoneObj, "IndexError")
    ELSE Returned([d \in 1..self.ndims |-> DeformationSum(self, pt, d, self.nLm)])

apply(self, pt) ==
    IF ~hasattr(self, "dMtxDat") THEN Returned(pt)
    ELSE computeDeformationContribution(self, pt)

-----------------------------------------------------------------------------
(* class Filter, class Layout *)

FilterObj(classname, params) ==
    [kind |-> "Filter", classname |-> classname, params |-> params]

Filter_to_dict(self) == [className |-> self.classname, params |-> self.params]

\* Layout(): sectionId, scopeId and cameraId are str(None).
Layout ==
    [kind |-> "Layout", sectionId |-> "None", scopeId |-> "None",
     cameraId |-> "None", imageRow |-> None, imageCol |-> None,
     stageX |-> None, stageY |-> None, rotation |-> None,
     pixelsize |-> "0.1"]

Layout_to_dict(self) ==
    [sectionId |-> self.sectionId, temca |-> self.scopeId,
     camera |-> self.cameraId, imageRow |-> self.imageRow,
     imageCol |-> self.imageCol, stageX |-> self.stageX,
     stageY |-> self.stageY, rotation |-> self.rotation,
     pixelsize |-> self.pixelsize]

Layout_from_dict(self, d) ==
    [self EXCEPT !.sectionId = Get(d, "sectionId", None),
                 !.cameraId = Get(d, "camera", None),
                 !.scopeId = Get(d, "temca", None),
                 !.imageRow = Get(d, "imageRow", None),
                 !.imageCol = Get(d, "imageCol", None),
                 !.stageX = Get(d, "stageX", None),
                 !.stageY = Get(d, "stageY", None),
                 !.rotation = Get(d, "rotation", None),
                 !.pixelsize = Get(d, "pixelsize", None)]

-----------------------------------------------------------------------------
(* class TileSpec *)

\* TileSpec(tileId=..., z=..., tforms=..., inputfilters=...): the other
\* parameters keep their defaults; minX..maxY are not set by __init__.
TileSpec(tileId, z, tforms, inputfilters) ==
    [kind |-> "TileSpec", tileId |-> tileId, z |-> z, width |-> None,
     height |-> None, layout |-> Layout, imageUrl |-> None,
     maskUrl |-> None, minint |-> "0", maxint |-> "65000",
     tforms |-> tforms, frameId |-> None, inputfilters |-> inputfilters,
     scale3Url |-> None, scale2Url |-> None, scale1Url |-> None,
     minX |-> Unset, maxX |-> Unset, maxY |-> Unset, minY |-> Unset]

\* t.to_dict() for an element of tforms, by the element's class.
tform_to_dict(t) ==
    CASE t.kind = "ReferenceTransform" -> ReferenceTransform_to_dict(t)
      [] t.kind = "AffineModel" -> AffineModel_to_dict(t)
      [] OTHER -> Transform_to_dict(t)

\* A Python list inside tforms is [kind |-> "list", items |-> <<...>>].
isinstance_list(t) == t.kind = "list"

TileSpec_to_dict(self) ==
    LET level0 == IF self.maskUrl # None
                  THEN [imageUrl |-> self.imageUrl, maskUrl |-> self.maskUrl]
                  ELSE [imageUrl |-> self.imageUrl]
        mipmapdict ==
            ("0" :> level0)
            @@ (IF self.scale1Url # None
                THEN "1" :> [imageUrl |-> self.scale1Url] ELSE EmptyDict)
            @@ (IF self.scale3Url # None
                THEN "3" :> [imageUrl |-> self.scale3Url] ELSE EmptyDict)
            @@ (IF self.scale2Url # None
                THEN "2" :> [imageUrl |-> self.scale2Url] ELSE EmptyDict)
        specList ==
            [i \in 1..Len(self.tforms) |->
                LET t == self.tforms[i]
                IN  IF isinstance_list(t)
                    THEN [type |-> "list",
                          specList |-> [j \in 1..Len(t.items) |->
                                           tform_to_dict(t.items[j])]]
                    ELSE tform_to_dict(t)]
        thedict ==
            [tileId |-> self.tileId, z |-> self.z, width |-> self.width,
             height |-> self.height, minIntensity |-> self.minint,
             maxIntensity |-> self.maxint, frameId |-> self.frameId,
             mipmapLevels |-> mipmapdict,
             transforms |-> [type |-> "list", specList |-> specList],
             inputfilters |->
                 [type |-> "list",
                  specList |-> [i \in 1..Len(self.inputfilters) |->
                                   Filter_to_dict(self.inputfilters[i])]]]
    IN  IF self.layout # NoneObj
        THEN thedict @@ ("layout" :> Layout_to_dict(self.layout))
        ELSE thedict

\* Lines 360-365: one assignment per required scalar, in this order.
RequiredScalars ==
    << <<"tileId", "tileId">>, <<"z", "z">>, <<"width", "width">>,
       <<"height", "height">>, <<"minint", "minIntensity">>,
       <<"maxint", "maxIntensity">> >>

RECURSIVE AssignScalars(_, _, _)
AssignScalars(self, d, i) ==
    IF i > Len(RequiredScalars) THEN Returned(self)
    ELSE IF RequiredScalars[i][2] \notin DOMAIN d
         THEN Raised(self, "KeyError")
         ELSE AssignScalars(
                  [self EXCEPT ![RequiredScalars[i][1]] = d[RequiredScalars[i][2]]],
                  d, i + 1)

\* Lines 373-386.
AssignMipmaps(self, d) ==
    IF "mipmapLevels" \notin DOMAIN d THEN Raised(self, "KeyError")
    ELSE LET mm == d.mipmapLevels
             scaleUrl(k) == IF k \in DOMAIN mm
                            THEN Get(mm[k], "imageUrl", None) ELSE None
         IN  IF "0" \notin DOMAIN mm THEN Raised(self, "KeyError")
             ELSE IF "imageUrl" \notin DOMAIN mm["0"]
                  THEN Raised(self, "KeyError")
                  ELSE Returned([self EXCEPT
                           !.imageUrl = mm["0"].imageUrl,
                           !.maskUrl = Get(mm["0"], "maskUrl", None),
                           !.scale2Url = scaleUrl("2"),
                           !.scale1Url = scaleUrl("1"),
                           !.scale3Url = scaleUrl("3")])

\* Lines 389-398, from record i on: obj is self.tforms as the loop has
\* built it. The append of line 398 is inside the 'leaf' branch.
RECURSIVE ParseSpecList(_, _, _)
ParseSpecList(specList, i, tforms) ==
    IF i > Len(specList) THEN Returned(tforms)
    ELSE LET t == specList[i]
         IN  IF "type" \notin DOMAIN t THEN Raised(tforms, "KeyError")
             ELSE IF t.type = "ref"
             THEN IF "refId" \notin DOMAIN t THEN Raised(tforms, "KeyError")
                  ELSE ParseSpecList(specList, i + 1, tforms)
             ELSE IF t.type = "leaf"
             THEN IF "className" \notin DOMAIN t
                  THEN Raised(tforms, "KeyError")
                  ELSE LET r == IF t.className = AffineClassName
                                THEN AffineModel_from_dict(
                                         AffineModel(1, 0, 0, 1, 0, 0), t)
                                ELSE Transform_from_dict(TransformBlank, t)
                       IN  IF r.exc # None THEN Raised(tforms, r.exc)
                           ELSE ParseSpecList(specList, i + 1,
                                              Append(tforms, r.obj))
             ELSE ParseSpecList(specList, i + 1, tforms)

\* Lines 388-398.
AssignTforms(self, d) ==
    LET s == [self EXCEPT !.tforms = <<>>]
    IN  IF "transforms" \notin DOMAIN d THEN Raised(s, "KeyError")
        ELSE IF "specList" \notin DOMAIN d.transforms
             THEN Raised(s, "KeyError")
             ELSE LET r == ParseSpecList(d.transforms.specList, 1, <<>>)
                  IN  [obj |-> [s EXCEPT !.tforms = r.obj], exc |-> r.exc]

\* Lines 399-405: f['type'] is read, then Filter() is called without the
\* classname its __init__ requires.
AssignFilters(self, d) ==
    LET s == [self EXCEPT !.inputfilters = <<>>]
    IN  IF "inputfilters" \notin DOMAIN d THEN Returned(s)
        ELSE IF "specList" \notin DOMAIN d.inputfilters
             THEN Raised(s, "KeyError")
             ELSE IF Len(d.inputfilters.specList) = 0 THEN Returned(s)
                  ELSE IF "type" \notin DOMAIN d.inputfilters.specList[1]
                       THEN Raised(s, "KeyError")
                       ELSE Raised(s, "TypeError")

\* Lines 358-405. Each step runs on the object the step before has left,
\* and an exception ends the call with the assignments made so far.
TileSpec_from_dict(self, d) ==
    LET filters(r5) ==
            IF r5.exc # None THEN r5 ELSE AssignFilters(r5.obj, d)
        tforms(r4) ==
            IF r4.exc # None THEN r4 ELSE filters(AssignTforms(r4.obj, d))
        mipmaps(s2) ==
            IF "layout" \notin DOMAIN d THEN Raised(s2, "KeyError")
            ELSE tforms(AssignMipmaps(
                     [s2 EXCEPT
                         !.layout = Layout_from_dict(Layout, d.layout),
                         !.minX = Get(d, "minX", None),
                         !.maxX = Get(d, "maxX", None),
                         !.maxY = Get(d, "maxY", None),
                         !.minY = Get(d, "minY", None)], d))
        layout(r1) ==
            IF r1.exc # None THEN r1
            ELSE mipmaps([r1.obj EXCEPT !.frameId = Get(d, "frameId", None),
                                        !.layout = Layout])
    IN  layout(AssignScalars(self, d, 1))

-----------------------------------------------------------------------------
(* class ResolvedTileSpecMap, class ResolvedTileSpecCollection *)

\* A Python list object is named <<owner, attribute>>. The list a default
\* argument "=[]" denotes is created once, with the function: its owner is
\* the class. A list created during a call on instance x is owned by x;
\* it replaces the one x owned before, which nothing else refers to.
DefaultList(class, attribute) == <<class, attribute>>

OwnList(self, attribute) == <<self, attribute>>

ResolvedTileSpecMap(tilespecs, transforms) ==
    [kind |-> "ResolvedTileSpecMap", tilespecs |-> tilespecs,
     transforms |-> transforms]

ResolvedTileSpecCollection(tilespecs, transforms) ==
    [kind |-> "ResolvedTileSpecCollection", tilespecs |-> tilespecs,
     transforms |-> transforms]

\* A dict filled in a loop and read back with .values() is the sequence of
\* its [key, value] pairs in insertion order; storing under a key that is
\* present replaces the value in place.
RECURSIVE DictPut(_, _, _)
DictPut(pairs, k, v) ==
    IF pairs = <<>> THEN << [key |-> k, value |-> v] >>
    ELSE IF pairs[1].key = k THEN << [key |-> k, value |-> v] >> \o Tail(pairs)
    ELSE << pairs[1] >> \o DictPut(Tail(pairs), k, v)

RECURSIVE TileIdToSpecMap(_, _)
TileIdToSpecMap(tilespecs, i) ==
    IF i = 0 THEN <<>>
    ELSE DictPut(TileIdToSpecMap(tilespecs, i - 1),
                 tilespecs[i].tileId, TileSpec_to_dict(tilespecs[i]))

\* An AffineModel has no transformId: its __init__ sets none.
RECURSIVE TransformIdToSpecMap(_, _)
TransformIdToSpecMap(transforms, i) ==
    IF i = 0 THEN Returned(<<>>)
    ELSE LET r == TransformIdToSpecMap(transforms, i - 1)
         IN  IF r.exc # None THEN r
             ELSE IF "transformId" \notin DOMAIN transforms[i]
                  THEN Raised(NoneObj, "AttributeError")
                  ELSE Returned(DictPut(r.obj, transforms[i].transformId,
                                        tform_to_dict(transforms[i])))

\* to_dict of a ResolvedTileSpecMap whose lists hold tilespecs, transforms.
ResolvedTileSpecMap_to_dict(tilespecs, transforms) ==
    LET r == TransformIdToSpecMap(transforms, Len(transforms))
    IN  IF r.exc # None THEN r
        ELSE Returned([tileIdToSpecMap |->
                           TileIdToSpecMap(tilespecs, Len(tilespecs)),
                       transformIdToSpecMap |-> r.obj])

\* Lines 23-26 from pair i on: ts = TileSpec(); ts.from_dict(tsd);
\* self.tilespecs.append(ts).
RECURSIVE AppendParsedTiles(_, _, _)
AppendParsedTiles(tilespecs, dicts, i) ==
    IF i > Len(dicts) THEN Returned(tilespecs)
    ELSE LET append(r) ==
                 IF r.exc # None THEN Raised(tilespecs, r.exc)
                 ELSE AppendParsedTiles(Append(tilespecs, r.obj), dicts, i + 1)
         IN  append(TileSpec_from_dict(TileSpec(None, None, <<>>, <<>>),
                                       dicts[i]))

\* from_dict of a ResolvedTileSpecMap: obj is the list self.tilespecs refers
\* to, appended to in place. Line 28 evaluates the name tf, which nothing
\* binds.
ResolvedTileSpecMap_from_dict(tilespecs, d) ==
    IF "tileIdToSpecMap" \notin DOMAIN d THEN Raised(tilespecs, "KeyError")
    ELSE IF "transformIdToSpecMap" \notin DOMAIN d
    THEN Raised(tilespecs, "KeyError")
    ELSE LET transforms(r) ==
                 IF r.exc # None THEN r
                 ELSE IF Len(d.transformIdToSpecMap) > 0
                      THEN Raised(r.obj, "NameError")
                      ELSE r
         IN  transforms(AppendParsedTiles(
                 tilespecs,
                 [i \in 1..Len(d.tileIdToSpecMap) |->
                      d.tileIdToSpecMap[i].value], 1))

ResolvedTileSpecCollection_to_dict(tilespecs, transforms) ==
    [tileCount |-> Len(tilespecs),
     tileSpecs |-> [i \in 1..Len(tilespecs) |-> TileSpec_to_dict(tilespecs[i])],
     transformCount |-> Len(transforms),
     transformSpecs |-> [i \in 1..Len(transforms) |->
                            tform_to_dict(transforms[i])]]

\* Lines 49-52 from index i on (i counts from 1 here).
RECURSIVE LoadTiles(_, _, _)
LoadTiles(tilespecs, d, i) ==
    IF i > d.tileCount THEN Returned(tilespecs)
    ELSE IF "tileSpecs" \notin DOMAIN d THEN Raised(tilespecs, "KeyError")
    ELSE IF i > Len(d.tileSpecs) THEN Raised(tilespecs, "IndexError")
    ELSE LET append(r) ==
                 IF r.exc # None THEN Raised(tilespecs, r.exc)
                 ELSE LoadTiles(Append(tilespecs, r.obj), d, i + 1)
         IN  append(TileSpec_from_dict(TileSpec(None, None, <<>>, <<>>),
                                       d.tileSpecs[i]))

\* Lines 53-60 from index i on. "is" compares object identity: whether a
\* className equal to the literal is the very same string object is up to
\* the interpreter and to where the mapping came from, so it is the input
\* interned.
RECURSIVE LoadTransforms(_, _, _, _)
LoadTransforms(transforms, d, i, interned) ==
    IF i > d.tranformCount THEN Returned(transforms)
    ELSE IF "transformSpecs" \notin DOMAIN d THEN Raised(transforms, "KeyError")
    ELSE IF i > Len(d.transformSpecs) THEN Raised(transforms, "IndexError")
    ELSE LET tfd == d.transformSpecs[i]
         IN  IF "className" \notin DOMAIN tfd THEN Raised(transforms, "KeyError")
             ELSE LET append(r) ==
                          IF r.exc # None THEN Raised(transforms, r.exc)
                          ELSE LoadTransforms(Append(transforms, r.obj), d,
                                              i + 1, interned)
                  IN  append(IF tfd.className = AffineClassName /\ interned
                             THEN AffineModel_from_dict(
                                      AffineModel(1, 0, 0, 1, 0, 0), tfd)
                             ELSE Transform_from_dict(
                                      Transform(None, None, None), tfd))

\* from_dict of a ResolvedTileSpecCollection: obj holds the two new lists
\* self.tilespecs and self.transforms are bound to at lines 47-48. Line 53
\* reads the key 'tranformCount'.
ResolvedTileSpecCollection_from_dict(d, interned) ==
    LET result(tiles, tfs, e) ==
            [obj |-> [tilespecs |-> tiles, transforms |-> tfs], exc |-> e]
    IN  IF "tileCount" \notin DOMAIN d THEN result(<<>>, <<>>, "KeyError")
        ELSE LET loaded(tiles, q) == result(tiles, q.obj, q.exc)
                 transforms(r) ==
                     IF r.exc # None THEN result(r.obj, <<>>, r.exc)
                     ELSE IF "tranformCount" \notin DOMAIN d
                     THEN result(r.obj, <<>>, "KeyError")
                     ELSE loaded(r.obj, LoadTransforms(<<>>, d, 1, interned))
             IN  transforms(LoadTiles(<<>>, d, 1))

-----------------------------------------------------------------------------
(* Inputs of the tile operations *)

OpaqueClassName == "org.example.NeverSeenTransform"

OpaqueLeaf ==
    [type |-> "leaf", className |-> OpaqueClassName,
     dataString |-> <<"opaque", "payload">>]

OpaqueLeafWithId ==
    [type |-> "leaf", className |-> OpaqueClassName,
     dataString |-> <<"other">>, transformId |-> "tf1"]

AffineLeaf ==
    [type |-> "leaf", className |-> AffineClassName,
     dataString |-> <<"1.0", "0.0", "0.0", "1.0", "5.0", "-3.0">>]

RefRecord == [type |-> "ref", refId |-> "tf1"]

NestedList == [type |-> "list", specList |-> <<OpaqueLeaf, AffineLeaf>>]

RefWithoutId == [type |-> "ref"]

\* The records a well-formed specList is made of.
WireTransforms == {OpaqueLeaf, AffineLeaf, RefRecord, NestedList}

SpecLists == UNION {[1..n -> WireTransforms] : n \in 0..MaxChain}

TileIds == {"t1", "t2"}

RequiredKeys ==
    {"tileId", "z", "width", "height", "minIntensity", "maxIntensity",
     "layout", "mipmapLevels", "transforms"}

LayoutDict == [sectionId |-> "s1", temca |-> "scope", camera |-> "cam"]

Level0Only == [x \in {"0"} |-> [imageUrl |-> "file:/img0"]]

Levels02 ==
    [x \in {"0", "2"} |->
        IF x = "0" THEN [imageUrl |-> "file:/img0", maskUrl |-> "file:/mask"]
                   ELSE [imageUrl |-> "file:/img2"]]

NoFilters == EmptyDict

EmptyFilters == "inputfilters" :> [type |-> "list", specList |-> <<>>]

OneFilter ==
    "inputfilters" :> [type |-> "list",
                       specList |-> <<[className |-> "f",
                                       params |-> EmptyDict]>>]

TileDict(tileId, mm, specList, filters) ==
    [tileId |-> tileId, z |-> "1", width |-> "2048", height |-> "2048",
     minIntensity |-> "0", maxIntensity |-> "255", layout |-> LayoutDict,
     mipmapLevels |-> mm,
     transforms |-> [type |-> "list", specList |-> specList]] @@ filters

\* Complete mappings: every chain of at most MaxChain well-formed records.
CompleteTileDicts ==
    { TileDict(id, Level0Only, sl, NoFilters) : id \in TileIds, sl \in SpecLists }

\* Complete mappings with more mipmap levels, with input filters, and with
\* malformed transform records.
VariantTileDicts ==
    { TileDict("t1", Levels02, <<OpaqueLeafWithId>>, EmptyFilters),
      TileDict("t1", Level0Only, <<AffineLeaf>>, OneFilter),
      TileDict("t2", Level0Only, <<OpaqueLeaf, RefWithoutId>>, NoFilters),
      TileDict("t2", Level0Only,
               <<[AffineLeaf EXCEPT !.dataString = <<"1.0", "0.0">>]>>,
               NoFilters) }

\* Mappings that lack one required key.
PartialTileDicts ==
    { Drop(TileDict(id, Levels02, <<OpaqueLeaf>>, NoFilters), missing) :
        id \in TileIds, missing \in RequiredKeys }

TileDicts == CompleteTileDicts \cup VariantTileDicts \cup PartialTileDicts

\* The tforms lists handed to the TileSpec constructor.
TformsInputs ==
    { <<>>,
      << ReferenceTransform("tf1"),
         Transform(OpaqueClassName, <<"opaque", "payload">>, None) >>,
      << [kind |-> "list",
          items |-> << Transform(OpaqueClassName, <<"opaque", "payload">>, None),
                       AffineModel(1, 0, 0, 1, 5, -3) >>],
         Transform(OpaqueClassName, <<"other">>, "tf1") >> }

FiltersInputs == { <<>>, << FilterObj("f", EmptyDict) >> }

-----------------------------------------------------------------------------
(* The state before any call *)

NoCall == [kind |-> "NoCall"]

\* The names the resolved collections are bound to, and the list objects.
MapNames == {"m1", "m2"}

ColNames == {"c1"}

ListIds ==
    (MapNames \cup ColNames
         \cup {"ResolvedTileSpecMap", "ResolvedTileSpecCollection"})
        \X {"tilespecs", "transforms"}

InitTs == TileSpec(None, None, <<>>, <<>>)

InitTf == Transform(None, None, None)

InitAm == AffineModel(1, 0, 0, 1, 0, 0)

InitSrc == [ts |-> NoneObj, tf |-> NoneObj, am |-> NoneObj]

Init ==
    /\ ts = InitTs
    /\ tf = InitTf
    /\ heap = [id \in ListIds |-> <<>>]
    /\ rmap = [m \in MapNames |-> NoneObj]
    /\ rcol = [c \in ColNames |-> NoneObj]
    /\ tps = NoneObj
    /\ am = InitAm
    /\ lastOp = "-"
    /\ arg = NoCall
    /\ ret = NoneObj
    /\ exc = None
    /\ src = InitSrc

-----------------------------------------------------------------------------
(* The tile operations *)

TileSpecConstruct ==
    \E tileId \in {None, "t0"}, tforms \in TformsInputs,
       inputfilters \in FiltersInputs :
        /\ ts' = TileSpec(tileId, None, tforms, inputfilters)
        /\ lastOp' = "TileSpec.__init__"
        /\ arg' = [tileId |-> tileId, tforms |-> tforms,
                   inputfilters |-> inputfilters]
        /\ ret' = NoneObj
        /\ exc' = None
        /\ src' = [src EXCEPT !.ts = NoneObj]
        /\ UNCHANGED <<tf, heap, rmap, rcol, tps, am>>

\* ts.from_dict(d) for some d of the set S.
TileSpecFromDictOf(S) ==
    \E d \in S :
        LET r == TileSpec_from_dict(ts, d)
        IN  /\ ts' = r.obj
            /\ lastOp' = "TileSpec.from_dict"
            /\ arg' = d
            /\ ret' = NoneObj
            /\ exc' = r.exc
            /\ src' = [src EXCEPT !.ts = IF r.exc = None THEN d ELSE NoneObj]
            /\ UNCHANGED <<tf, heap, rmap, rcol, tps, am>>

\* d is one of TileDicts, or the mapping ts.to_dict() has just returned.
TileSpecFromDict ==
    TileSpecFromDictOf(
        TileDicts \cup (IF lastOp = "TileSpec.to_dict" THEN {ret} ELSE {}))

TileSpecToDict ==
    /\ lastOp' = "TileSpec.to_dict"
    /\ arg' = NoCall
    /\ ret' = TileSpec_to_dict(ts)
    /\ exc' = None
    /\ UNCHANGED <<ts, src, tf, heap, rmap, rcol, tps, am>>

NextTile ==
    \/ TileSpecConstruct
    \/ TileSpecFromDict
    \/ TileSpecToDict

SpecTile == Init /\ [][NextTile]_vars

-----------------------------------------------------------------------------
(* The leaf operations: a stand-alone Transform, and the leaves of a tile's
   chain *)

TPSLeaf ==
    [type |-> "leaf", className |-> TPSClassName,
     dataString |-> <<"ThinPlateSplineR2LogR", "2", "0", "null", "">>,
     transformId |-> "tf2"]

LeafInputs ==
    { OpaqueLeaf, OpaqueLeafWithId, TPSLeaf,
      Drop(OpaqueLeafWithId, "className"), Drop(TPSLeaf, "dataString") }

TransformConstruct ==
    \E className \in {None, OpaqueClassName}, transformId \in {None, "tf3"} :
        /\ tf' = Transform(className, None, transformId)
        /\ lastOp' = "Transform.__init__"
        /\ arg' = [className |-> className, transformId |-> transformId]
        /\ ret' = NoneObj
        /\ exc' = None
        /\ src' = [src EXCEPT !.tf = NoneObj]
        /\ UNCHANGED <<ts, heap, rmap, rcol, tps, am>>

TransformFromDict ==
    \E d \in LeafInputs :
        LET r == Transform_from_dict(tf, d)
        IN  /\ tf' = r.obj
            /\ lastOp' = "Transform.from_dict"
            /\ arg' = d
            /\ ret' = NoneObj
            /\ exc' = r.exc
            /\ src' = [src EXCEPT !.tf = IF r.exc = None THEN d ELSE NoneObj]
            /\ UNCHANGED <<ts, heap, rmap, rcol, tps, am>>

TransformToDict ==
    /\ lastOp' = "Transform.to_dict"
    /\ arg' = NoCall
    /\ ret' = Transform_to_dict(tf)
    /\ exc' = None
    /\ UNCHANGED <<tf, src, ts, heap, rmap, rcol, tps, am>>

\* ts.from_dict(d) for a complete mapping d: its leaves reach
\* Transform.from_dict through lines 392-398.
TileSpecParseLeaves ==
    TileSpecFromDictOf(
        { TileDict("t1", Level0Only, sl, NoFilters) : sl \in SpecLists }
        \cup { TileDict("t2", Levels02, <<OpaqueLeafWithId, TPSLeaf>>,
                        EmptyFilters) })

NextLeaf ==
    \/ TransformConstruct
    \/ TransformFromDict
    \/ TransformToDict
    \/ TileSpecParseLeaves
    \/ TileSpecToDict

SpecLeaf == Init /\ [][NextLeaf]_vars

-----------------------------------------------------------------------------
(* Claims about TileSpec and Transform *)

Complete(d) == RequiredKeys \subseteq DOMAIN d

WellFormedRef(t) == t.type = "ref" /\ "refId" \in DOMAIN t

WellFormedLeaf(t) ==
    /\ t.type = "leaf"
    /\ {"className", "dataString"} \subseteq DOMAIN t
    /\ t.className = AffineClassName =>
           /\ Len(t.dataString) = 6
           /\ \A i \in 1..6 : IsFloatToken(t.dataString[i])

\* A complete mapping without input filters whose chain holds only 'ref' and
\* 'leaf' records.
FlatChainMapping(d) ==
    /\ Complete(d)
    /\ "inputfilters" \notin DOMAIN d
    /\ \A i \in 1..Len(d.transforms.specList) :
           \/ WellFormedRef(d.transforms.specList[i])
           \/ WellFormedLeaf(d.transforms.specList[i])

ParsedAs(t, o) ==
    IF t.type = "ref"
    THEN o.kind = "ReferenceTransform" /\ o.refId = t.refId
    ELSE o.kind \in {"Transform", "AffineModel"} /\ o.className = t.className

\* C1: after TileSpec.from_dict on a mapping whose chain is n records of
\* type 'ref' or 'leaf', tforms has n elements, the i-th a
\* ReferenceTransform with the i-th record's refId or a leaf with the i-th
\* record's className.
C1_FlatChainPreserved ==
    (lastOp = "TileSpec.from_dict" /\ FlatChainMapping(arg)) =>
        /\ exc = None
        /\ Len(ts.tforms) = Len(arg.transforms.specList)
        /\ \A i \in 1..Len(ts.tforms) :
               ParsedAs(arg.transforms.specList[i], ts.tforms[i])

HasNestedList(d) ==
    \E i \in 1..Len(d.transforms.specList) :
        d.transforms.specList[i].type = "list"

SameNesting(in, out) ==
    /\ out.type = in.type
    /\ in.type = "list" =>
           /\ Len(out.specList) = Len(in.specList)
           /\ \A j \in 1..Len(in.specList) :
                  /\ out.specList[j].type = in.specList[j].type
                  /\ out.specList[j].className = in.specList[j].className

\* C2: TileSpec.from_dict followed by TileSpec.to_dict on a mapping whose
\* chain holds a 'list' entry emits a chain of the same length and order,
\* the nested entry still a 'list' holding the same leaves in order.
C2_NestedListRoundTrip ==
    (lastOp = "TileSpec.to_dict" /\ src.ts # NoneObj /\ HasNestedList(src.ts)) =>
        LET in == src.ts.transforms.specList
            out == ret.transforms.specList
        IN  /\ Len(out) = Len(in)
            /\ \A i \in 1..Len(in) : SameNesting(in[i], out[i])

IsOpaqueLeaf(t) == t.type = "leaf" /\ t.className # AffineClassName

LeafContent(t) ==
    [type |-> t.type, className |-> t.className, dataString |-> t.dataString]

OpaqueLeavesOf(specList) ==
    LET leaves == SelectSeq(specList, IsOpaqueLeaf)
    IN  [i \in 1..Len(leaves) |-> LeafContent(leaves[i])]

\* C3: a leaf whose className is not the affine class identifier, parsed by
\* Transform.from_dict and emitted by to_dict, keeps type 'leaf', its
\* className and its dataString; also when TileSpec.from_dict parses it and
\* TileSpec.to_dict emits it: the opaque leaves come out as they went in, in
\* their order.
C3_OpaquePassthrough ==
    /\ (lastOp = "Transform.to_dict" /\ src.tf # NoneObj
            /\ src.tf.className # AffineClassName) =>
           LeafContent(ret) = [LeafContent(src.tf) EXCEPT !.type = "leaf"]
    /\ (lastOp = "TileSpec.to_dict" /\ src.ts # NoneObj) =>
           OpaqueLeavesOf(ret.transforms.specList)
               = OpaqueLeavesOf(src.ts.transforms.specList)

\* A tile parsed from a chain that mixes two different opaque leaves with
\* other records has been emitted, after a stand-alone Transform was parsed.
C3_Witness ==
    /\ lastOp = "TileSpec.to_dict"
    /\ src.ts # NoneObj
    /\ src.tf # NoneObj
    /\ Len(OpaqueLeavesOf(src.ts.transforms.specList)) = 2
    /\ OpaqueLeavesOf(src.ts.transforms.specList)[1]
           # OpaqueLeavesOf(src.ts.transforms.specList)[2]
    /\ Len(ret.transforms.specList) = 2

\* C10: TileSpec.from_dict on a mapping that lacks a required field raises
\* and leaves every field of the TileSpec as it was before the call.
C10_FailedParseKeepsFields ==
    [][ (lastOp' = "TileSpec.from_dict" /\ ~Complete(arg')) =>
            (exc' # None /\ ts' = ts) ]_vars

-----------------------------------------------------------------------------
(* The AffineModel operations *)

\* The dataStrings "M00 M01 M10 M11 B0 B1" handed to AffineModel.from_dict.
AffineDataStrings ==
    { <<m00, m01, m10, m11, b0, b1>> :
        m00 \in {"1.0", "0.0"}, m01 \in {"0.0", "1.0"},
        m10 \in {"0.0", "1.0"}, m11 \in {"1.0", "0.0"},
        b0 \in {"0.0", "5.0"}, b1 \in {"0.0", "-3.0"} }

AffineDicts ==
    { [type |-> "leaf", className |-> AffineClassName, dataString |-> ds] :
        ds \in AffineDataStrings \cup { <<"1.0", "0.0", "0.0", "1.0", "5.0">>,
                                        <<"1.0", "0.0", "0.0", "1.0", "5.0", "x">> } }
    \cup { [type |-> "leaf", className |-> AffineClassName] }

\* The six scalars handed to the constructor.
AffineScalars ==
    { <<1, 0, 0, 1, 0, 0>>, <<1, 0, 0, 1, 5, -3>>, <<0, 1, 1, 0, 0, 0>>,
      <<1, 1, 0, 1, 2, 0>>, <<1, 0, 0, 0, 0, 0>>, <<0, 1, -1, 0, 0, 2>> }

Points2D == { <<0, 0>>, <<1, 1>>, <<1, 0>> }

Points3D == { <<0, 0, 0>>, <<1, 1, 2>> }

Batches ==
    UNION { { [dim |-> 2, rows |-> rows] : rows \in [1..n -> Points2D] }
            \cup { [dim |-> 3, rows |-> rows] : rows \in [1..n -> Points3D] } :
            n \in 0..MaxPts }
    \cup { [dim |-> 4, rows |-> << <<0, 0, 0, 1>> >>],
           [dim |-> 1, rows |-> << <<1>> >>] }

AffineConstruct ==
    \E p \in AffineScalars :
        /\ am' = AffineModel(p[1], p[2], p[3], p[4], p[5], p[6])
        /\ lastOp' = "AffineModel.__init__"
        /\ arg' = p
        /\ ret' = NoneObj
        /\ exc' = None
        /\ src' = [src EXCEPT !.am = NoneObj]
        /\ UNCHANGED <<ts, tf, heap, rmap, rcol, tps>>

AffineFromDict ==
    \E d \in AffineDicts :
        LET r == AffineModel_from_dict(am, d)
        IN  /\ am' = r.obj
            /\ lastOp' = "AffineModel.from_dict"
            /\ arg' = d
            /\ ret' = NoneObj
            /\ exc' = r.exc
            /\ src' = [src EXCEPT !.am = IF r.exc = None THEN d ELSE src.am]
            /\ UNCHANGED <<ts, tf, heap, rmap, rcol, tps>>

AffineInvert ==
    LET r == AffineModel_invert(am)
    IN  /\ lastOp' = "AffineModel.invert"
        /\ arg' = NoCall
        /\ ret' = r.obj
        /\ exc' = r.exc
        /\ UNCHANGED <<am, src, ts, tf, heap, rmap, rcol, tps>>

AffineTform ==
    \E points \in Batches :
        LET r == tform(am, points)
        IN  /\ lastOp' = "AffineModel.tform"
            /\ arg' = points
            /\ ret' = r.obj
            /\ exc' = r.exc
            /\ UNCHANGED <<am, src, ts, tf, heap, rmap, rcol, tps>>

AffineToDict ==
    /\ lastOp' = "AffineModel.to_dict"
    /\ arg' = NoCall
    /\ ret' = AffineModel_to_dict(am)
    /\ exc' = None
    /\ UNCHANGED <<am, src, ts, tf, heap, rmap, rcol, tps>>

NextAffine ==
    \/ AffineConstruct
    \/ AffineFromDict
    \/ AffineInvert
    \/ AffineTform
    \/ AffineToDict

SpecAffine == Init /\ [][NextAffine]_vars

-----------------------------------------------------------------------------
(* Claims about AffineModel *)

\* C7: tform of an AffineModel parsed from 'M00 M01 M10 M11 B0 B1' maps the
\* i-th point (x, y) to (M00*x + M01*y + B0, M10*x + M11*y + B1), keeps a
\* third coordinate z unchanged, and returns as many points, of as many
\* coordinates, as it was given.
C7_TformPointwise ==
    (lastOp = "AffineModel.tform" /\ src.am # NoneObj /\ arg.dim \in {2, 3}) =>
        LET ds == src.am.dataString
            M00 == float(ds[1])
            M01 == float(ds[2])
            M10 == float(ds[3])
            M11 == float(ds[4])
            B0 == float(ds[5])
            B1 == float(ds[6])
        IN  /\ exc = None
            /\ ret.dim = arg.dim
            /\ Len(ret.rows) = Len(arg.rows)
            /\ \A i \in 1..Len(arg.rows) :
                   LET x == arg.rows[i][1]
                       y == arg.rows[i][2]
                   IN  /\ Len(ret.rows[i]) = arg.dim
                       /\ ret.rows[i][1] = M00 * x + M01 * y + B0
                       /\ ret.rows[i][2] = M10 * x + M11 * y + B1
                       /\ arg.dim = 3 => ret.rows[i][3] = arg.rows[i][3]

\* The spec's example: '1.0 0.0 0.0 1.0 5.0 -3.0' maps (0,0) to (5,-3) and
\* (1,1) to (6,-2).
C7_Witness ==
    /\ lastOp = "AffineModel.tform"
    /\ src.am # NoneObj
    /\ src.am.dataString = <<"1.0", "0.0", "0.0", "1.0", "5.0", "-3.0">>
    /\ arg = [dim |-> 2, rows |-> << <<0, 0>>, <<1, 1>> >>]
    /\ ret = [dim |-> 2, rows |-> << <<5, -3>>, <<6, -2>> >>]

MatrixMatchesParameters(o) ==
    \A i \in 0..3, j \in 0..3 :
        o.M[i][j] = CASE i = 0 /\ j = 0 -> o.M00
                      [] i = 0 /\ j = 1 -> o.M01
                      [] i = 1 /\ j = 0 -> o.M10
                      [] i = 1 /\ j = 1 -> o.M11
                      [] i = 0 /\ j = 3 -> o.B0
                      [] i = 1 /\ j = 3 -> o.B1
                      [] OTHER -> IF i = j THEN 1 ELSE 0

\* C8: the AffineModel that construction or from_dict leaves, and the one
\* invert() returns, has M[0,0]=M00, M[0,1]=M01, M[1,0]=M10, M[1,1]=M11,
\* M[0,3]=B0, M[1,3]=B1 and the identity's entry everywhere else.
C8_MatrixMatchesParameters ==
    /\ MatrixMatchesParameters(am)
    /\ (lastOp = "AffineModel.invert" /\ exc = None) =>
           MatrixMatchesParameters(ret)

-----------------------------------------------------------------------------
(* The ThinPlateSplineTransform operations *)

NullBlock == [text |-> "null", values |-> <<>>]

\* The base64 text of an array of len numbers, 1.0 where i + phase is even.
Base64Block(len, phase) ==
    [text |-> "base64",
     values |-> [i \in 1..len |-> IF (i + phase) % 2 = 0 THEN Scale ELSE 0]]

\* Every ndims and nLm up to the bounds; a first block that is null or of
\* any length up to one more than ndims*ndims + ndims; a second block of any
\* length up to one more than 2*ndims*nLm.
TPSDataStrings ==
    UNION { { <<"ThinPlateSplineR2LogR", ToString(ndims), ToString(nLm), b1, b2>> :
                b1 \in {NullBlock}
                       \cup { Base64Block(len, 0) :
                                len \in 0..(ndims * ndims + ndims + 1) },
                b2 \in { Base64Block(len, phase) :
                           len \in 0..(2 * ndims * nLm + 1), phase \in {0, 1} } } :
            ndims \in 0..MaxDims, nLm \in 0..MaxLm }

TPSPoints == { <<0, 0>>, <<Scale, 2 * Scale>>, <<2 * Scale>> }

\* ThinPlateSplineTransform(): no dataString.
TPSConstructBare ==
    /\ tps' = ThinPlateSplineTransformBare
    /\ lastOp' = "ThinPlateSplineTransform.__init__"
    /\ arg' = NoCall
    /\ ret' = NoneObj
    /\ exc' = None
    /\ UNCHANGED <<src, ts, tf, heap, rmap, rcol, am>>

\* ThinPlateSplineTransform(dataString=...): a constructor that raises
\* yields no instance.
TPSConstruct ==
    \E fields \in TPSDataStrings :
        LET r == process_dataString(
                     [kind |-> "ThinPlateSplineTransform"], fields)
        IN  /\ tps' = IF r.exc = None
                      THEN r.obj @@ ThinPlateSplineTransformBare
                      ELSE NoneObj
            /\ lastOp' = "ThinPlateSplineTransform.__init__"
            /\ arg' = fields
            /\ ret' = NoneObj
            /\ exc' = r.exc
            /\ UNCHANGED <<src, ts, tf, heap, rmap, rcol, am>>

TPSApply ==
    /\ tps # NoneObj
    /\ \E pt \in TPSPoints :
           LET r == apply(tps, pt)
           IN  /\ lastOp' = "ThinPlateSplineTransform.apply"
               /\ arg' = pt
               /\ ret' = r.obj
               /\ exc' = r.exc
               /\ UNCHANGED <<tps, src, ts, tf, heap, rmap, rcol, am>>

NextTPS ==
    \/ TPSConstructBare
    \/ TPSConstruct
    \/ TPSApply

SpecTPS == Init /\ [][NextTPS]_vars

-----------------------------------------------------------------------------
(* Claims about ThinPlateSplineTransform *)

LengthMismatch(fields) ==
    LET ndims == int(fields[2])
        nLm == int(fields[3])
    IN  \/ /\ fields[4].text # "null"
           /\ Len(fields[4].values) # ndims * ndims + ndims
        \/ Len(fields[5].values) # 2 * ndims * nLm

\* C5: when the first block is not 'null' and its decoded length differs
\* from ndims*ndims + ndims, or the second block's decoded length differs
\* from 2*ndims*nLm, parsing raises instead of producing a transform.
C5_LengthMismatchRaises ==
    (lastOp = "ThinPlateSplineTransform.__init__" /\ arg # NoCall
         /\ LengthMismatch(arg)) =>
        (exc # None /\ tps = NoneObj)

ZeroLandmarks(self) == ~hasattr(self, "nLm") \/ self.nLm = 0

\* C6: apply on a transform with zero landmarks, built without a dataString
\* or parsed from one whose nLm is 0, returns the input point unchanged
\* (stated for the points that have the transform's ndims coordinates).
C6_ZeroLandmarksIdentity ==
    (lastOp = "ThinPlateSplineTransform.apply" /\ ZeroLandmarks(tps)
         /\ (hasattr(tps, "ndims") => Len(arg) = tps.ndims)) =>
        (exc = None /\ ret = arg)

-----------------------------------------------------------------------------
(* The operations of the resolved collections *)

Tile1 == TileSpec("t1", "1", <<>>, <<>>)

Tile2 ==
    TileSpec("t2", "2",
             << Transform(OpaqueClassName, <<"opaque", "payload">>, None) >>,
             <<>>)

SharedTransform == Transform(OpaqueClassName, <<"other">>, "tf1")

\* The lists a caller hands to the constructors.
SuppliedLists ==
    { [tilespecs |-> <<Tile1>>, transforms |-> <<>>],
      [tilespecs |-> <<Tile1, Tile2>>, transforms |-> <<SharedTransform>>],
      [tilespecs |-> <<Tile2>>,
       transforms |-> <<SharedTransform, AffineModel(1, 0, 0, 1, 5, -3)>>] }

\* The mappings handed to from_dict: the one to_dict has just returned and,
\* for the list shape, the same with the key 'tranformCount' that line 53
\* reads in place of 'transformCount'.
WireInputs ==
    IF lastOp \in {"ResolvedTileSpecMap.to_dict",
                   "ResolvedTileSpecCollection.to_dict"} /\ exc = None
    THEN {ret} \cup
         (IF "transformCount" \in DOMAIN ret
          THEN { [tranformCount |-> ret.transformCount]
                     @@ Drop(ret, "transformCount") }
          ELSE {})
    ELSE {}

\* x = ResolvedTileSpecMap()
MapConstruct(x) ==
    /\ rmap' = [rmap EXCEPT ![x] = ResolvedTileSpecMap(
                    DefaultList("ResolvedTileSpecMap", "tilespecs"),
                    DefaultList("ResolvedTileSpecMap", "transforms"))]
    /\ heap' = [heap EXCEPT ![OwnList(x, "tilespecs")] = <<>>,
                            ![OwnList(x, "transforms")] = <<>>]
    /\ lastOp' = "ResolvedTileSpecMap.__init__"
    /\ arg' = [self |-> x, supplied |-> FALSE]
    /\ ret' = NoneObj
    /\ exc' = None
    /\ UNCHANGED <<rcol, src, ts, tf, tps, am>>

\* x = ResolvedTileSpecMap(tilespecs=[...], transforms=[...])
MapConstructWith(x) ==
    \E lists \in SuppliedLists :
        /\ rmap' = [rmap EXCEPT ![x] = ResolvedTileSpecMap(
                        OwnList(x, "tilespecs"), OwnList(x, "transforms"))]
        /\ heap' = [heap EXCEPT ![OwnList(x, "tilespecs")] = lists.tilespecs,
                                ![OwnList(x, "transforms")] = lists.transforms]
        /\ lastOp' = "ResolvedTileSpecMap.__init__"
        /\ arg' = [self |-> x, supplied |-> TRUE]
        /\ ret' = NoneObj
        /\ exc' = None
        /\ UNCHANGED <<rcol, src, ts, tf, tps, am>>

MapToDict(x) ==
    /\ rmap[x] # NoneObj
    /\ LET r == ResolvedTileSpecMap_to_dict(heap[rmap[x].tilespecs],
                                            heap[rmap[x].transforms])
       IN  /\ ret' = r.obj
           /\ exc' = r.exc
    /\ lastOp' = "ResolvedTileSpecMap.to_dict"
    /\ arg' = [self |-> x]
    /\ UNCHANGED <<rmap, heap, rcol, src, ts, tf, tps, am>>

MapFromDict(x) ==
    /\ rmap[x] # NoneObj
    /\ \E d \in WireInputs :
           LET done(r) ==
                   /\ Len(r.obj) <= MaxList
                   /\ heap' = [heap EXCEPT ![rmap[x].tilespecs] = r.obj]
                   /\ lastOp' = "ResolvedTileSpecMap.from_dict"
                   /\ arg' = [self |-> x, d |-> d]
                   /\ ret' = NoneObj
                   /\ exc' = r.exc
           IN  done(ResolvedTileSpecMap_from_dict(heap[rmap[x].tilespecs], d))
    /\ UNCHANGED <<rmap, rcol, src, ts, tf, tps, am>>

\* x = ResolvedTileSpecCollection()
ColConstruct(x) ==
    /\ rcol' = [rcol EXCEPT ![x] = ResolvedTileSpecCollection(
                    DefaultList("ResolvedTileSpecCollection", "tilespecs"),
                    DefaultList("ResolvedTileSpecCollection", "transforms"))]
    /\ heap' = [heap EXCEPT ![OwnList(x, "tilespecs")] = <<>>,
                            ![OwnList(x, "transforms")] = <<>>]
    /\ lastOp' = "ResolvedTileSpecCollection.__init__"
    /\ arg' = [self |-> x, supplied |-> FALSE]
    /\ ret' = NoneObj
    /\ exc' = None
    /\ UNCHANGED <<rmap, src, ts, tf, tps, am>>

\* x = ResolvedTileSpecCollection(tilespecs=[...], transforms=[...])
ColConstructWith(x) ==
    \E lists \in SuppliedLists :
        /\ rcol' = [rcol EXCEPT ![x] = ResolvedTileSpecCollection(
                        OwnList(x, "tilespecs"), OwnList(x, "transforms"))]
        /\ heap' = [heap EXCEPT ![OwnList(x, "tilespecs")] = lists.tilespecs,
                                ![OwnList(x, "transforms")] = lists.transforms]
        /\ lastOp' = "ResolvedTileSpecCollection.__init__"
        /\ arg' = [self |-> x, supplied |-> TRUE]
        /\ ret' = NoneObj
        /\ exc' = None
        /\ UNCHANGED <<rmap, src, ts, tf, tps, am>>

ColToDict(x) ==
    /\ rcol[x] # NoneObj
    /\ ret' = ResolvedTileSpecCollection_to_dict(heap[rcol[x].tilespecs],
                                                 heap[rcol[x].transforms])
    /\ exc' = None
    /\ lastOp' = "ResolvedTileSpecCollection.to_dict"
    /\ arg' = [self |-> x]
    /\ UNCHANGED <<rcol, heap, rmap, src, ts, tf, tps, am>>

\* Lines 47-48 bind self.tilespecs and self.transforms to new lists.
ColFromDict(x) ==
    /\ rcol[x] # NoneObj
    /\ \E d \in WireInputs, interned \in BOOLEAN :
           LET done(r) ==
                   /\ rcol' = [rcol EXCEPT ![x] = ResolvedTileSpecCollection(
                                   OwnList(x, "tilespecs"),
                                   OwnList(x, "transforms"))]
                   /\ heap' = [heap EXCEPT
                                  ![OwnList(x, "tilespecs")] = r.obj.tilespecs,
                                  ![OwnList(x, "transforms")] = r.obj.transforms]
                   /\ lastOp' = "ResolvedTileSpecCollection.from_dict"
                   /\ arg' = [self |-> x, d |-> d]
                   /\ ret' = NoneObj
                   /\ exc' = r.exc
           IN  done(ResolvedTileSpecCollection_from_dict(d, interned))
    /\ UNCHANGED <<rmap, src, ts, tf, tps, am>>

\* One instance of each class: the two wire shapes.
NextCollection ==
    \/ MapConstruct("m1")
    \/ MapConstructWith("m1")
    \/ MapToDict("m1")
    \/ MapFromDict("m1")
    \/ \E x \in ColNames : ColConstruct(x)
    \/ \E x \in ColNames : ColConstructWith(x)
    \/ \E x \in ColNames : ColToDict(x)
    \/ \E x \in ColNames : ColFromDict(x)

SpecCollection == Init /\ [][NextCollection]_vars

\* Several instances of ResolvedTileSpecMap.
NextShared ==
    \/ \E x \in MapNames : MapConstruct(x)
    \/ \E x \in MapNames : MapConstructWith(x)
    \/ \E x \in MapNames : MapToDict(x)
    \/ \E x \in MapNames : MapFromDict(x)

SpecShared == Init /\ [][NextShared]_vars

-----------------------------------------------------------------------------
(* Claims about the resolved collections *)

TileIdsOf(tilespecs) == {tilespecs[i].tileId : i \in 1..Len(tilespecs)}

TransformIdsOf(transforms) ==
    {Get(transforms[i], "transformId", None) : i \in 1..Len(transforms)}

\* C4: the mapping ResolvedTileSpecCollection.to_dict emits is accepted by
\* ResolvedTileSpecCollection.from_dict, and the one ResolvedTileSpecMap
\* .to_dict emits by ResolvedTileSpecMap.from_dict, without raising and
\* yielding the emitted tileIds and transformIds.
C4_BothShapesParse ==
    /\ (lastOp = "ResolvedTileSpecCollection.from_dict"
            /\ "transformCount" \in DOMAIN arg.d) =>
           /\ exc = None
           /\ TileIdsOf(heap[rcol[arg.self].tilespecs])
                  = TileIdsOf(arg.d.tileSpecs)
           /\ TransformIdsOf(heap[rcol[arg.self].transforms])
                  = TransformIdsOf(arg.d.transformSpecs)
    /\ (lastOp = "ResolvedTileSpecMap.from_dict"
            /\ "tileIdToSpecMap" \in DOMAIN arg.d) =>
           /\ exc = None
           /\ {arg.d.tileIdToSpecMap[i].key :
                   i \in 1..Len(arg.d.tileIdToSpecMap)}
                  \subseteq TileIdsOf(heap[rmap[arg.self].tilespecs])
           /\ {arg.d.transformIdToSpecMap[i].key :
                   i \in 1..Len(arg.d.transformIdToSpecMap)}
                  \subseteq TransformIdsOf(heap[rmap[arg.self].transforms])

\* The lists an instance refers to, or NoneObj while the name is unbound.
Containers(x) ==
    LET o == IF x \in MapNames THEN rmap[x] ELSE rcol[x]
    IN  IF o = NoneObj THEN NoneObj
        ELSE [tilespecs |-> heap[o.tilespecs], transforms |-> heap[o.transforms]]

\* C9: a call on one instance leaves the tilespecs and transforms of every
\* other instance as they were, and an instance constructed without
\* collection arguments starts with empty containers.
C9_NoSharedContainers ==
    [][ \A x \in MapNames \cup ColNames :
            /\ (x # arg'.self) => (Containers(x)' = Containers(x))
            /\ (x = arg'.self /\ "supplied" \in DOMAIN arg' /\ ~arg'.supplied) =>
                   (Containers(x)' = [tilespecs |-> <<>>, transforms |-> <<>>])
      ]_vars

=============================================================================
